---- MODULE Spec2Model ----
(***************************************************************************)
(* The resumable-upload adapter OSSStore (pkg/ossstore/OSSStore.go) on top *)
(* of the object storage port OSSAPI / ossService.                         *)
(*                                                                         *)
(* Go strings are modelled as sequences of bytes, the bucket as a function *)
(* from object keys to objects, an upload handle (an ossUpload) as a slot   *)
(* holding its FileInfo.  Every exported handler is one action; GetInfo   *)
(* and GetReader return a value and are operators.  Spec drives the        *)
(* handlers one call at a time, SpecCtx with a context, SpecOverlap with   *)
(* two ids sharing a key, SpecConc with two WriteChunk calls in flight.    *)
(***************************************************************************)
EXTENDS Integers, Sequences, FiniteSets, TLC

VARIABLES
    store,      \* the bucket: object key -> object (or Absent)
    handles,    \* handle slot -> the ossUpload held by the caller (or NoHandle)
    last,       \* the call made by the last step: arguments, result, port calls,
                \*   and the call before it
    fresh,      \* history: id -> the upload was created while it had no data
                \*   object, and only appended to / resumed / read since
    written,    \* history: id -> chunks of the successful appends since that Create
    terminated, \* history: id -> a Terminate succeeded and no Create succeeded since
    resumed,    \* history: id -> the handle GetUpload returned for it since the
                \*   bucket last changed (or NoHandle)
    inflight,   \* caller -> the WriteChunk call it has in flight (or Idle)
    ctx         \* the context handed to the call of the last step

vars == <<store, handles, last, fresh, written, terminated, resumed, inflight, ctx>>

----------------------------------------------------------------------------
(* Bounds of the model *)

\* the data object is never grown beyond MaxLen bytes
MaxLen == 3

\* handle slots the caller keeps
Slots == {1}

\* the chunks a caller appends: "h" and "wo"
Chunks == { <<104>>, <<119, 111>> }

\* the identities (filehash values) callers use: "a"
IdA == <<97>>
Ids == { IdA }

\* the declared total sizes callers pass in FileInfo.Size
Sizes == { 2 }

\* filename values: "f" and the single byte 0xFF, which is not valid UTF-8
NameF == <<102>>
NameBad == <<255>>

\* the metadata maps callers pass to NewUpload
MetaDatas ==
    { [filename |-> NameF],
      [filehash |-> IdA],
      [filehash |-> IdA, filename |-> NameF],
      [filehash |-> IdA, filename |-> NameBad] }

----------------------------------------------------------------------------
(* Keys *)

\* ".info"
InfoSuffix == <<46, 105, 110, 102, 111>>

binPath(id) == id

infoPath(id) == id \o InfoSuffix

\* every key a call of the model can name (the empty id included)
\* two identities of which one is the other followed by ".info"
IdsOverlap == { IdA, IdA \o InfoSuffix }

AllIds == Ids \cup IdsOverlap

AllKeys == UNION { {binPath(id), infoPath(id)} : id \in AllIds \cup {<<>>} }

----------------------------------------------------------------------------
(* Errors *)

NoErr == "nil"
ErrMissFilehash == "miss filehash"
ErrNoSuchKey == "NoSuchKey"
ErrPosition == "PositionNotEqualToLength"
ErrNotAppendable == "ObjectNotAppendable"
ErrTransport == "transport failure"
ErrJSON == "json: cannot unmarshal"
\* context.Canceled, what a call that honours a cancelled context returns
ErrCanceled == "context canceled"

----------------------------------------------------------------------------
(* Objects of the bucket *)

Absent == [kind |-> "absent"]

\* an object written by PutObject; its content is a JSON document
NormalObject(doc) == [kind |-> "normal", doc |-> doc]

\* an object grown by AppendObject; its content is raw bytes
AppendableObject(bytes) == [kind |-> "appendable", bytes |-> bytes]

----------------------------------------------------------------------------
(* encoding/json as used on handler.FileInfo *)

\* U+FFFD in UTF-8
Replacement == <<239, 191, 189>>

\* json.Marshal coerces a string to valid UTF-8, replacing invalid bytes by
\* U+FFFD.  Decoded here: ASCII bytes, and the sequence EF BF BD itself; every
\* other byte >= 0x80 of the model's strings (0xFF) is invalid.
RECURSIVE ToValidUTF8(_)
ToValidUTF8(s) ==
    IF s = <<>> THEN <<>>
    ELSE IF Head(s) < 128 THEN <<Head(s)>> \o ToValidUTF8(Tail(s))
    ELSE IF Len(s) >= 3 /\ SubSeq(s, 1, 3) = Replacement
         THEN Replacement \o ToValidUTF8(SubSeq(s, 4, Len(s)))
    ELSE Replacement \o ToValidUTF8(Tail(s))

\* the JSON document of a FileInfo: every string value coerced
jsonMarshal(info) ==
    [ ID       |-> ToValidUTF8(info.ID),
      Size     |-> info.Size,
      Offset   |-> info.Offset,
      MetaData |-> [k \in DOMAIN info.MetaData |-> ToValidUTF8(info.MetaData[k])],
      Storage  |-> [Type |-> info.Storage.Type, Key |-> ToValidUTF8(info.Storage.Key)] ]

RECURSIVE Digits(_)
Digits(n) == IF n < 10 THEN 1 ELSE 1 + Digits(n \div 10)

\* bytes of a JSON object whose members are the string-valued map m
jsonMapLen(m) ==
    LET RECURSIVE Members(_)
        Members(ks) ==
            IF ks = {} THEN 0
            ELSE LET k == CHOOSE x \in ks : TRUE
                 IN  Len(k) + 2 + 1 + Len(m[k]) + 2 + Members(ks \ {k})
        n == Cardinality(DOMAIN m)
    IN  2 + Members(DOMAIN m) + (IF n > 0 THEN n - 1 ELSE 0)

\* bytes of the text json.Marshal writes for a FileInfo whose strings need no
\* escape: {"ID":..,"Size":..,"SizeIsDeferred":false,"Offset":..,"MetaData":..,
\* "IsPartial":false,"IsFinal":false,"PartialUploads":null,"Storage":..}
jsonLen(doc) ==
    127 + (Len(doc.ID) + 2) + Digits(doc.Size) + Digits(doc.Offset)
        + jsonMapLen(doc.MetaData) + jsonMapLen(doc.Storage)

\* json.Unmarshal into a FileInfo: a document decodes to its fields; the raw
\* bytes of a data object (Chunks) are no JSON text
jsonUnmarshal(obj) ==
    IF obj.kind = "normal"
    THEN [err |-> NoErr, info |-> obj.doc]
    ELSE [err |-> ErrJSON]

----------------------------------------------------------------------------
(* The object storage port (ossService over the bucket).  `fault` is the    *)
(* environment's choice that the request does not reach the backend.        *)

\* Content-Length of an object (0 stands for no object)
ObjLen(obj) ==
    IF obj.kind = "appendable" THEN Len(obj.bytes)
    ELSE IF obj.kind = "normal" THEN jsonLen(obj.doc)
    ELSE 0

ReadObject(s, key, fault) ==
    IF fault THEN [err |-> ErrTransport]
    ELSE IF s[key] = Absent THEN [err |-> ErrNoSuchKey]
    ELSE [err |-> NoErr, body |-> s[key]]

GetObjectSize(s, key, fault) ==
    IF fault THEN [n |-> 0, err |-> ErrTransport]
    ELSE IF s[key] = Absent THEN [n |-> 0, err |-> ErrNoSuchKey]
    ELSE [n |-> ObjLen(s[key]), err |-> NoErr]

WriteObject(s, key, doc, fault) ==
    IF fault THEN [err |-> ErrTransport, store |-> s]
    ELSE [err |-> NoErr, store |-> [s EXCEPT ![key] = NormalObject(doc)]]

\* the position check dropped: appends whatever the asserted offset
AppendObjectAnyPosition(s, key, chunk, offset, fault) ==
    IF fault THEN [n |-> 0, err |-> ErrTransport, store |-> s]
    ELSE IF s[key].kind = "normal" THEN [n |-> 0, err |-> ErrNotAppendable, store |-> s]
    ELSE LET old == IF s[key] = Absent THEN <<>> ELSE s[key].bytes
         IN  [ n     |-> Len(old) + Len(chunk),
               err   |-> NoErr,
               store |-> [s EXCEPT ![key] = AppendableObject(old \o chunk)] ]

\* the chunk put in front of the object instead of behind it
AppendObjectInFront(s, key, chunk, offset, fault) ==
    IF fault THEN [n |-> 0, err |-> ErrTransport, store |-> s]
    ELSE IF s[key].kind = "normal" THEN [n |-> 0, err |-> ErrNotAppendable, store |-> s]
    ELSE IF offset # ObjLen(s[key]) THEN [n |-> 0, err |-> ErrPosition, store |-> s]
    ELSE LET old == IF s[key] = Absent THEN <<>> ELSE s[key].bytes
         IN  [ n     |-> offset + Len(chunk),
               err   |-> NoErr,
               store |-> [s EXCEPT ![key] = AppendableObject(chunk \o old)] ]

\* the chunk written over the object instead of appended to it
AppendObjectOverwrite(s, key, chunk, offset, fault) ==
    IF fault THEN [n |-> 0, err |-> ErrTransport, store |-> s]
    ELSE IF s[key].kind = "normal" THEN [n |-> 0, err |-> ErrNotAppendable, store |-> s]
    ELSE IF offset # ObjLen(s[key]) THEN [n |-> 0, err |-> ErrPosition, store |-> s]
    ELSE [ n     |-> offset + Len(chunk),
           err   |-> NoErr,
           store |-> [s EXCEPT ![key] = AppendableObject(chunk)] ]

\* appends chunk at the asserted position; the int64 returned is the next
\* append position
AppendObject(s, key, chunk, offset, fault) ==
    IF fault THEN [n |-> 0, err |-> ErrTransport, store |-> s]
    ELSE IF s[key].kind = "normal" THEN [n |-> 0, err |-> ErrNotAppendable, store |-> s]
    ELSE IF offset # ObjLen(s[key]) THEN [n |-> 0, err |-> ErrPosition, store |-> s]
    ELSE LET old == IF s[key] = Absent THEN <<>> ELSE s[key].bytes
         IN  [ n     |-> offset + Len(chunk),
               err   |-> NoErr,
               store |-> [s EXCEPT ![key] = AppendableObject(old \o chunk)] ]

\* removes the keys of `deleted`; a nil error means every key was removed, an
\* error leaves open which of them were
DeleteObject(s, keys, deleted, failed) ==
    [ err   |-> IF failed THEN ErrTransport ELSE NoErr,
      store |-> [k \in DOMAIN s |-> IF k \in deleted THEN Absent ELSE s[k]] ]

\* what the backend may do with a delete of `keys`
DeleteOutcomes(keys) ==
    { [deleted |-> keys, failed |-> FALSE] }
        \cup { [deleted |-> d, failed |-> TRUE] : d \in SUBSET keys }

----------------------------------------------------------------------------
(* Handles *)

NoHandle == [live |-> FALSE]

Handle(info) == [live |-> TRUE, info |-> info]

\* ossUpload.GetInfo
GetInfo(upload) == upload.info

NoCall == [op |-> "none", h |-> 0, id |-> <<>>, offset |-> 0, chunk |-> <<>>,
           n |-> 0, err |-> NoErr, portErr |-> NoErr, calls |-> <<>>,
           created |-> <<>>]

\* the id the call before the one being recorded created, when that call was a
\* successful NewUpload (the empty string otherwise)
Before(call) == IF call.op = "NewUpload" /\ call.err = NoErr THEN call.id ELSE <<>>

\* the goroutines that call WriteChunk at the same time
Callers == {1, 2}

\* a caller with no call in flight
Idle == [pc |-> "idle"]

\* context.Context values a caller passes: one that is live and one that is
\* already cancelled when the call is made
Background == "background"
Cancelled == "cancelled"
Contexts == { Background, Cancelled }

Init ==
    /\ store = [k \in AllKeys |-> Absent]
    /\ handles = [h \in Slots |-> NoHandle]
    /\ last = NoCall
    /\ fresh = [id \in AllIds |-> FALSE]
    /\ written = [id \in AllIds |-> <<>>]
    /\ terminated = [id \in AllIds |-> FALSE]
    /\ resumed = [id \in AllIds |-> NoHandle]
    /\ inflight = [c \in Callers |-> Idle]
    /\ ctx = Background

\* one of the keys is a key of the upload id
Holds(id, keys) == binPath(id) \in keys \/ infoPath(id) \in keys

\* id has no data object: nothing was appended under its key, or it was deleted
NoDataObject(s, id) == s[binPath(id)] = Absent

----------------------------------------------------------------------------
(* OSSStore.NewUpload *)

\* the identity check left out: a map without filehash yields the empty id
NewUploadCallNoCheck(s, md, sz, fault) ==
    LET id   == IF "filehash" \in DOMAIN md THEN md.filehash ELSE <<>>
        info == [ ID |-> id, Size |-> sz, Offset |-> 0, MetaData |-> md,
                  Storage |-> [Type |-> "ossstore", Key |-> binPath(id)] ]
        w    == WriteObject(s, infoPath(id), jsonMarshal(info), fault)
    IN  [ err    |-> w.err,
          id     |-> id,
          store  |-> w.store,
          upload |-> IF w.err = NoErr THEN Handle(info) ELSE NoHandle,
          calls  |-> <<"WriteObject">> ]

\* what NewUpload(ctx, info) returns and does to the bucket, for a FileInfo
\* carrying the metadata md, the size sz and offset 0
NewUploadCall(s, md, sz, fault) ==
    IF "filehash" \notin DOMAIN md
    THEN [ err |-> ErrMissFilehash, id |-> <<>>, store |-> s,
           upload |-> NoHandle, calls |-> <<>> ]
    ELSE LET id   == md.filehash
             info == [ ID |-> id, Size |-> sz, Offset |-> 0, MetaData |-> md,
                       Storage |-> [Type |-> "ossstore", Key |-> binPath(id)] ]
             w    == WriteObject(s, infoPath(id), jsonMarshal(info), fault)
         IN  [ err    |-> w.err,
               id     |-> id,
               store  |-> w.store,
               upload |-> IF w.err = NoErr THEN Handle(info) ELSE NoHandle,
               calls  |-> <<"WriteObject">> ]

NewUpload(h, md, sz, fault) ==
    LET r  == NewUploadCall(store, md, sz, fault)
        ok == r.err = NoErr
    IN  /\ store' = r.store
        /\ handles' = IF ok THEN [handles EXCEPT ![h] = r.upload] ELSE handles
        /\ last' = [NoCall EXCEPT !.op = "NewUpload", !.h = h, !.id = r.id,
                                  !.err = r.err, !.portErr = r.err, !.calls = r.calls,
                                  !.created = Before(last)]
        /\ IF r.id \in AllIds
           THEN /\ fresh' = [id \in AllIds |->
                               IF id = r.id THEN ok /\ NoDataObject(store, r.id)
                               ELSE fresh[id] /\ ~(ok /\ Holds(id, {infoPath(r.id)}))]
                /\ written' = [id \in AllIds |->
                                 IF id = r.id \/ (ok /\ Holds(id, {infoPath(r.id)}))
                                 THEN <<>> ELSE written[id]]
                /\ terminated' = [terminated EXCEPT ![r.id] = IF ok THEN FALSE ELSE @]
           ELSE UNCHANGED <<fresh, written, terminated>>

----------------------------------------------------------------------------
(* OSSStore.GetUpload *)

\* the offset taken from the stored snapshot instead of the size query
resumeOffsetFromSnapshot(snapshot, size) == snapshot.Offset

\* the measured offset written back to the metadata object
GetUploadCallStoresOffset(s, id, readFault, sizeFault) ==
    LET r == ReadObject(s, infoPath(id), readFault)
    IN  IF r.err # NoErr \/ r.body.kind # "normal"
        THEN [ err |-> IF r.err # NoErr THEN r.err ELSE ErrJSON, upload |-> NoHandle,
               portErr |-> r.err, store |-> s, calls |-> <<"ReadObject">> ]
        ELSE LET size == GetObjectSize(s, binPath(id), sizeFault)
                 info == [r.body.doc EXCEPT !.Offset = size.n]
             IN  [ err |-> NoErr, upload |-> Handle(info), portErr |-> size.err,
                   store |-> WriteObject(s, infoPath(id), jsonMarshal(info), FALSE).store,
                   calls |-> <<"ReadObject", "GetObjectSize", "WriteObject">> ]

\* offset, _ := GetObjectSize(...); info.Offset = offset
resumeOffset(snapshot, size) == size.n

GetUploadCall(s, id, readFault, sizeFault) ==
    LET r == ReadObject(s, infoPath(id), readFault)
    IN  IF r.err # NoErr
        THEN [ err |-> r.err, upload |-> NoHandle, portErr |-> r.err,
               store |-> s, calls |-> <<"ReadObject">> ]
        ELSE LET u == jsonUnmarshal(r.body)
             IN  IF u.err # NoErr
                 THEN [ err |-> u.err, upload |-> NoHandle, portErr |-> NoErr,
                        store |-> s, calls |-> <<"ReadObject">> ]
                 ELSE LET size == GetObjectSize(s, binPath(id), sizeFault)
                          info == [u.info EXCEPT !.Offset = resumeOffset(u.info, size)]
                      IN  [ err |-> NoErr, upload |-> Handle(info),
                            portErr |-> size.err, store |-> s,
                            calls |-> <<"ReadObject", "GetObjectSize">> ]

GetUpload(h, id, readFault, sizeFault) ==
    LET r == GetUploadCall(store, id, readFault, sizeFault)
    IN  /\ store' = r.store
        /\ handles' = IF r.err = NoErr THEN [handles EXCEPT ![h] = r.upload] ELSE handles
        /\ last' = [NoCall EXCEPT !.op = "GetUpload", !.h = h, !.id = id,
                                  !.err = r.err, !.portErr = r.portErr, !.calls = r.calls,
                                  !.created = Before(last)]
        /\ UNCHANGED <<fresh, written, terminated>>

----------------------------------------------------------------------------
(* ossUpload.WriteChunk *)

\* the offset cached in the handle asserted instead of the offset argument
WriteChunkCallCachedOffset(s, upload, offset, chunk, fault) ==
    LET a == AppendObject(s, binPath(upload.info.ID), chunk, upload.info.Offset, fault)
    IN  IF a.err # NoErr
        THEN [ n |-> 0, err |-> a.err, portErr |-> a.err, store |-> a.store,
               copy |-> upload, calls |-> <<"AppendObject">> ]
        ELSE [ n |-> a.n, err |-> a.err, portErr |-> a.err, store |-> a.store,
               copy |-> [upload EXCEPT !.info.Offset = @ + a.n],
               calls |-> <<"AppendObject">> ]

\* the metadata object rewritten with the new offset after the append
WriteChunkCallWritesInfo(s, upload, offset, chunk, fault) ==
    LET a    == AppendObject(s, binPath(upload.info.ID), chunk, offset, fault)
        info == [upload.info EXCEPT !.Offset = a.n]
    IN  IF a.err # NoErr
        THEN [ n |-> 0, err |-> a.err, portErr |-> a.err, store |-> a.store,
               copy |-> upload, calls |-> <<"AppendObject">> ]
        ELSE [ n |-> a.n, err |-> a.err, portErr |-> a.err,
               store |-> WriteObject(a.store, infoPath(upload.info.ID),
                                     jsonMarshal(info), FALSE).store,
               copy |-> Handle(info), calls |-> <<"AppendObject", "WriteObject">> ]

\* what WriteChunk(ctx, offset, src) returns and does; `copy` is the method's
\* receiver after the call.  The content-disposition option built from the
\* filename attribute is a header of the request and changes no object.
WriteChunkCall(s, upload, offset, chunk, fault) ==
    LET a == AppendObject(s, binPath(upload.info.ID), chunk, offset, fault)
    IN  IF a.err # NoErr
        THEN [ n |-> 0, err |-> a.err, portErr |-> a.err, store |-> a.store,
               copy |-> upload, calls |-> <<"AppendObject">> ]
        ELSE [ n |-> a.n, err |-> a.err, portErr |-> a.err, store |-> a.store,
               copy |-> [upload EXCEPT !.info.Offset = @ + a.n],
               calls |-> <<"AppendObject">> ]

\* the receiver is an ossUpload value, not a pointer: the method updates its
\* own copy and the handle the caller holds keeps its info
WriteChunk(h, offset, chunk, fault) ==
    /\ handles[h].live
    /\ LET id == handles[h].info.ID
           r  == WriteChunkCall(store, handles[h], offset, chunk, fault)
       IN  /\ r.err = NoErr => ObjLen(r.store[binPath(id)]) <= MaxLen
           /\ store' = r.store
           /\ handles' = handles
           /\ last' = [NoCall EXCEPT !.op = "WriteChunk", !.h = h, !.id = id,
                                     !.offset = offset, !.chunk = chunk, !.n = r.n,
                                     !.err = r.err, !.portErr = r.portErr,
                                     !.calls = r.calls, !.created = Before(last)]
           /\ written' = [written EXCEPT ![id] =
                            IF fresh[id] /\ r.err = NoErr THEN @ \o chunk ELSE @]
           /\ UNCHANGED <<fresh, terminated>>

----------------------------------------------------------------------------
(* ossUpload.GetReader *)

\* reads the metadata object instead of the data object
GetReaderOfInfo(s, upload, fault) == ReadObject(s, infoPath(upload.info.ID), fault)

GetReader(s, upload, fault) == ReadObject(s, binPath(upload.info.ID), fault)

----------------------------------------------------------------------------
(* ossUpload.Terminate *)

\* only the metadata key is deleted
TerminateKeysInfoOnly(id) == { infoPath(id) }

\* DeleteObject(ctx, infoPath, binPath)
TerminateKeys(id) == { infoPath(id), binPath(id) }

TerminateCall(s, upload, deleted, failed) ==
    LET d == DeleteObject(s, TerminateKeys(upload.info.ID), deleted, failed)
    IN  [ err |-> d.err, store |-> d.store, calls |-> <<"DeleteObject">> ]

Terminate(h) ==
    /\ handles[h].live
    /\ \E outcome \in DeleteOutcomes(TerminateKeys(handles[h].info.ID)) :
       LET id == handles[h].info.ID
           r  == TerminateCall(store, handles[h], outcome.deleted, outcome.failed)
       IN  /\ store' = r.store
           /\ last' = [NoCall EXCEPT !.op = "Terminate", !.h = h, !.id = id,
                                     !.err = r.err, !.portErr = r.err, !.calls = r.calls,
                                  !.created = Before(last)]
           /\ fresh' = [j \in AllIds |-> fresh[j] /\ ~Holds(j, TerminateKeys(id))]
           /\ written' = [j \in AllIds |->
                            IF Holds(j, TerminateKeys(id)) THEN <<>> ELSE written[j]]
           /\ terminated' = [terminated EXCEPT ![id] = IF r.err = NoErr THEN TRUE ELSE @]
           /\ UNCHANGED handles

----------------------------------------------------------------------------
(* ossUpload.ConcatUploads, DeclareLength, FinishUpload *)

\* lengths a caller declares
Lengths == 1..MaxLen

\* the declared length is stored in the metadata object
DeclareLengthCallStoresLength(s, upload, length) ==
    LET info == [upload.info EXCEPT !.Size = length]
        w    == WriteObject(s, infoPath(upload.info.ID), jsonMarshal(info), FALSE)
    IN  [ err |-> w.err, store |-> w.store, copy |-> Handle(info),
          calls |-> <<"WriteObject">> ]

\* return nil
DeclareLengthCall(s, upload, length) ==
    [ err |-> NoErr, store |-> s, copy |-> upload, calls |-> <<>> ]

\* return nil
ConcatUploadsCall(s, upload, uploads) ==
    [ err |-> NoErr, store |-> s, copy |-> upload, calls |-> <<>> ]

\* return nil
FinishUploadCall(s, upload) ==
    [ err |-> NoErr, store |-> s, copy |-> upload, calls |-> <<>> ]

\* a call of one of the three on the handle in slot h that returned r; the
\* receiver is passed by value, the caller's handle is not r.copy
Stub(op, h, r) ==
    /\ store' = r.store
    /\ last' = [NoCall EXCEPT !.op = op, !.h = h, !.id = handles[h].info.ID,
                              !.err = r.err, !.portErr = r.err, !.calls = r.calls,
                              !.created = Before(last)]
    /\ UNCHANGED <<handles, fresh, written, terminated>>

DeclareLength(h, length) ==
    /\ handles[h].live
    /\ Stub("DeclareLength", h, DeclareLengthCall(store, handles[h], length))

ConcatUploads(h, uploads) ==
    /\ handles[h].live
    /\ Stub("ConcatUploads", h, ConcatUploadsCall(store, handles[h], uploads))

FinishUpload(h) ==
    /\ handles[h].live
    /\ Stub("FinishUpload", h, FinishUploadCall(store, handles[h]))

----------------------------------------------------------------------------
(* The adapter driven by a caller *)

\* what every call made on its own, with a live context, leaves behind: the
\* handle a GetUpload whose size query was answered returned is remembered until
\* the bucket changes
NoteResume ==
    resumed' = IF store' # store THEN [id \in AllIds |-> NoHandle]
               ELSE IF /\ last'.op = "GetUpload" /\ last'.err = NoErr
                       /\ last'.portErr # ErrTransport
                    THEN [resumed EXCEPT ![last'.id] = handles'[last'.h]]
               ELSE resumed

Sequential == NoteResume /\ UNCHANGED <<inflight, ctx>>

Next ==
    \/ \E h \in Slots, md \in MetaDatas, sz \in Sizes, fault \in BOOLEAN :
         NewUpload(h, md, sz, fault) /\ Sequential
    \/ \E h \in Slots, id \in Ids, readFault \in BOOLEAN, sizeFault \in BOOLEAN :
         GetUpload(h, id, readFault, sizeFault) /\ Sequential
    \/ \E h \in Slots, offset \in 0..MaxLen, chunk \in Chunks, fault \in BOOLEAN :
         WriteChunk(h, offset, chunk, fault) /\ Sequential
    \/ \E h \in Slots :
         Terminate(h) /\ Sequential
    \/ \E h \in Slots, length \in Lengths :
         DeclareLength(h, length) /\ Sequential
    \/ \E h \in Slots : \E uploads \in { <<>>, <<handles[h]>> } :
         ConcatUploads(h, uploads) /\ Sequential
    \/ \E h \in Slots :
         FinishUpload(h) /\ Sequential

Spec == Init /\ [][Next]_vars

----------------------------------------------------------------------------
(* The adapter called with a context.  Every handler hands its ctx to the   *)
(* ossService method it calls, and no ossService method reads its ctx: the  *)
(* SDK calls are made without it.  A call with context c is therefore the   *)
(* handler as above, whatever c is.                                         *)

WithContext(c) == NoteResume /\ ctx' = c /\ UNCHANGED inflight

NextCtx ==
    \/ \E c \in Contexts, h \in Slots, md \in MetaDatas, sz \in Sizes, fault \in BOOLEAN :
         NewUpload(h, md, sz, fault) /\ WithContext(c)
    \/ \E c \in Contexts, h \in Slots, id \in Ids, readFault \in BOOLEAN,
           sizeFault \in BOOLEAN :
         GetUpload(h, id, readFault, sizeFault) /\ WithContext(c)
    \/ \E c \in Contexts, h \in Slots, offset \in 0..MaxLen, chunk \in Chunks,
           fault \in BOOLEAN :
         WriteChunk(h, offset, chunk, fault) /\ WithContext(c)
    \/ \E c \in Contexts, h \in Slots :
         Terminate(h) /\ WithContext(c)

SpecCtx == Init /\ [][NextCtx]_vars

----------------------------------------------------------------------------
(* The adapter driven with two identities of which one is the other followed *)
(* by ".info": infoPath of the one is binPath of the other.                  *)

MetaDatasOverlap == { [filehash |-> id] : id \in IdsOverlap }

NextOverlap ==
    \/ \E h \in Slots, md \in MetaDatasOverlap, sz \in Sizes :
         NewUpload(h, md, sz, FALSE) /\ Sequential
    \/ \E h \in Slots, id \in IdsOverlap :
         GetUpload(h, id, FALSE, FALSE) /\ Sequential
    \/ \E h \in Slots, offset \in 0..MaxLen, chunk \in Chunks :
         WriteChunk(h, offset, chunk, FALSE) /\ Sequential
    \/ \E h \in Slots :
         Terminate(h) /\ Sequential

SpecOverlap == Init /\ [][NextOverlap]_vars

----------------------------------------------------------------------------
(* WriteChunk called by two goroutines at the same time.  A call is in      *)
(* flight from the moment it is made to the moment it returns; the one      *)
(* thing it does to shared state is the backend's AppendObject, which the   *)
(* backend performs atomically.  The receiver is the caller's ossUpload     *)
(* copied at the call, so the calls share no memory of the adapter.         *)

\* the chunks appended concurrently: "", "h" and "wo"
ChunksConc == { <<>> } \cup Chunks

\* caller c calls WriteChunk(ctx, offset, chunk) on the handle in slot h; a
\* call made while another one is in flight asserts the same offset
WriteChunkBegin(c, h, offset, chunk) ==
    /\ inflight[c] = Idle
    /\ handles[h].live
    /\ \A d \in Callers : inflight[d] # Idle => inflight[d].offset = offset
    /\ inflight' = [inflight EXCEPT ![c] =
                       [ pc |-> "called", upload |-> handles[h], offset |-> offset,
                         chunk |-> chunk, n |-> 0, err |-> NoErr, portErr |-> NoErr ]]
    /\ UNCHANGED <<store, handles, last, fresh, written, terminated, resumed, ctx>>

\* the AppendObject request of caller c's call is served (or lost)
WriteChunkAppend(c, fault) ==
    /\ inflight[c] # Idle
    /\ inflight[c].pc = "called"
    /\ LET call == inflight[c]
           id   == call.upload.info.ID
           r    == WriteChunkCall(store, call.upload, call.offset, call.chunk, fault)
       IN  /\ r.err = NoErr => ObjLen(r.store[binPath(id)]) <= MaxLen
           /\ store' = r.store
           /\ inflight' = [inflight EXCEPT ![c] =
                              [call EXCEPT !.pc = "done", !.n = r.n, !.err = r.err,
                                           !.portErr = r.portErr]]
           /\ written' = [written EXCEPT ![id] =
                            IF fresh[id] /\ r.err = NoErr THEN @ \o call.chunk ELSE @]
           /\ resumed' = IF store' # store THEN [j \in AllIds |-> NoHandle] ELSE resumed
           /\ UNCHANGED <<handles, last, fresh, terminated, ctx>>

\* caller c's call returns n and err to it
WriteChunkReturn(c) ==
    /\ inflight[c] # Idle
    /\ inflight[c].pc = "done"
    /\ inflight' = [inflight EXCEPT ![c] = Idle]
    /\ UNCHANGED <<store, handles, last, fresh, written, terminated, resumed, ctx>>

NextConc ==
    \/ \E h \in Slots, sz \in Sizes :
         NewUpload(h, [filehash |-> IdA], sz, FALSE) /\ Sequential
    \/ \E c \in Callers, h \in Slots, offset \in 0..MaxLen, chunk \in ChunksConc :
         WriteChunkBegin(c, h, offset, chunk)
    \/ \E c \in Callers, fault \in BOOLEAN :
         WriteChunkAppend(c, fault)
    \/ \E c \in Callers :
         WriteChunkReturn(c)

SpecConc == Init /\ [][NextConc]_vars

----------------------------------------------------------------------------
(* Shorthands for the step just taken *)

\* the step is a call of op that returned no error
Succeeded(op) == last'.op = op /\ last'.err = NoErr

\* length of the data object of id in bucket s (0 when there is none)
DataLen(s, id) == ObjLen(s[binPath(id)])

----------------------------------------------------------------------------
(* C1, C2: what WriteChunk returns and does to the handle *)

\* C1: after a successful WriteChunk that returned n, GetInfo on the same handle
\* reports the offset it reported before the call plus n.
C1_HandleOffsetAdvancesByN ==
    [][ Succeeded("WriteChunk") =>
            GetInfo(handles'[last'.h]).Offset
                = GetInfo(handles[last'.h]).Offset + last'.n ]_vars

\* C2: a successful WriteChunk(offset, bytes) returns len(bytes), the number of
\* bytes this call appended, and the data object is then offset + r bytes long.
C2_ReturnsBytesAppended ==
    [][ Succeeded("WriteChunk") =>
            /\ last'.n = Len(last'.chunk)
            /\ DataLen(store', last'.id) = last'.offset + last'.n ]_vars

----------------------------------------------------------------------------
(* C3: Create immediately followed by Resume *)

\* the step is a successful GetUpload(id) right after a successful NewUpload
\* that derived the same id
ResumeRightAfterCreate ==
    /\ last.op = "NewUpload" /\ last.err = NoErr
    /\ Succeeded("GetUpload") /\ last'.id = last.id

\* the metadata of the handle is valid UTF-8: JSON encoding leaves it as it is
ValidMetaData(upload) ==
    \A k \in DOMAIN upload.info.MetaData :
        ToValidUTF8(upload.info.MetaData[k]) = upload.info.MetaData[k]

\* C3 as stated, for metadata that is valid UTF-8: in every reachable state,
\* also after an earlier Create and appends with the same filehash, Create
\* immediately followed by Resume(id) returns offset 0 and the metadata
\* attributes given to Create (those of the handle Create returned).
C3_CreateThenResumeOffsetZero ==
    [][ (ResumeRightAfterCreate /\ ValidMetaData(handles[last.h])) =>
            /\ GetInfo(handles'[last'.h]).Offset = 0
            /\ GetInfo(handles'[last'.h]).MetaData
                   = GetInfo(handles[last.h]).MetaData ]_vars

\* C3 amended: Create immediately followed by Resume(id) returns the metadata
\* attributes given to Create with every byte that is not valid UTF-8 replaced
\* by U+FFFD, and the offset the size query measures: the length of the data
\* object of id (left by earlier appends with the same filehash), 0 when there
\* is none or when the size query fails.
C3_CreateThenResumeMeasuredOffset ==
    [][ ResumeRightAfterCreate =>
            LET given == GetInfo(handles[last.h]).MetaData
                got   == GetInfo(handles'[last'.h])
            IN  /\ got.Offset = IF last'.portErr = ErrTransport
                                THEN 0 ELSE DataLen(store, last'.id)
                /\ store[binPath(last'.id)] = Absent => got.Offset = 0
                /\ got.MetaData = [k \in DOMAIN given |-> ToValidUTF8(given[k])] ]_vars

\* a Resume right after a Create of an id that already had data: the handle
\* carries the leftover length and the coerced filename
C3_Witness ==
    /\ last.op = "GetUpload" /\ last.err = NoErr /\ last.portErr = NoErr
    /\ last.created = last.id
    /\ handles[last.h].info.Offset = 3
    /\ "filename" \in DOMAIN handles[last.h].info.MetaData
    /\ handles[last.h].info.MetaData.filename = Replacement

----------------------------------------------------------------------------
(* C4: correctly-offset appends on a newly created upload *)

\* C4: on a newly created upload (created while it had no data object, and
\* since then only appended to, resumed and read: fresh), every WriteChunk
\* that asserts the sum of the lengths of the chunks appended so far
\* and reaches the backend succeeds; the data object is as long as that sum;
\* and a Resume whose size query is answered reports that sum, whatever the
\* offset cached in a handle.
C4_CorrectlyOffsetAppends ==
    [][ /\ \A id \in Ids :
              fresh'[id] => DataLen(store', id) = Len(written'[id])
        /\ ( /\ last'.op = "WriteChunk"
             /\ fresh[last'.id]
             /\ last'.offset = Len(written[last'.id])
             /\ last'.portErr # ErrTransport )
               => /\ last'.err = NoErr
                  /\ written'[last'.id] = written[last'.id] \o last'.chunk
        /\ ( /\ Succeeded("GetUpload")
             /\ fresh[last'.id]
             /\ last'.portErr # ErrTransport )
               => GetInfo(handles'[last'.h]).Offset = Len(written[last'.id]) ]_vars

\* a Resume of a fresh upload after the appends "h" at 0 and "wo" at 1, made
\* on a handle whose cached offset is still 0 in the stored snapshot
C4_Witness ==
    /\ last.op = "GetUpload" /\ last.err = NoErr
    /\ fresh[last.id] /\ written[last.id] = <<104, 119, 111>>
    /\ handles[last.h].info.Offset = 3
    /\ store[infoPath(last.id)].doc.Offset = 0

----------------------------------------------------------------------------
(* C5: an append at the wrong offset *)

\* C5: WriteChunk with an asserted offset different from the data object's
\* length (0 when absent) fails, with the error the port returned, which is the
\* offset conflict whenever the request reached the backend; the bucket and the
\* handle's info are unchanged and 0 is returned.
C5_WrongOffsetRejected ==
    [][ ( /\ last'.op = "WriteChunk"
          /\ last'.offset # DataLen(store, last'.id) )
            => /\ last'.err # NoErr
               /\ last'.err = last'.portErr
               /\ last'.portErr # ErrTransport => last'.err = ErrPosition
               /\ last'.n = 0
               /\ store' = store
               /\ GetInfo(handles'[last'.h]) = GetInfo(handles[last'.h]) ]_vars

\* an append at offset 0 rejected by the backend on a data object of 3 bytes
C5_Witness ==
    /\ last.op = "WriteChunk" /\ last.err = ErrPosition /\ last.offset = 0
    /\ DataLen(store, last.id) = 3
    /\ store[infoPath(last.id)] # Absent

----------------------------------------------------------------------------
(* C6, C7: Terminate *)

\* C6: after a Terminate that returned success both keys of the upload are
\* absent, and as long as no Create of the id succeeds Resume(id) fails, with
\* NotFound whenever the metadata read reached the backend.
C6_TerminateThenResumeNotFound ==
    [][ /\ Succeeded("Terminate") =>
              /\ store'[binPath(last'.id)] = Absent
              /\ store'[infoPath(last'.id)] = Absent
        /\ (last'.op = "GetUpload" /\ terminated[last'.id]) =>
              /\ last'.err # NoErr
              /\ last'.portErr # ErrTransport => last'.err = ErrNoSuchKey ]_vars

\* a Resume answered NotFound after a successful Terminate
C6_Witness ==
    /\ last.op = "GetUpload" /\ last.err = ErrNoSuchKey
    /\ terminated[last.id]

\* C7: when Terminate returns an error, also when the backend deleted only one
\* of the two keys, both objects are as before the call and a Resume(id) that
\* succeeded before (with the backend reachable) still succeeds.
C7_FailedTerminateLeavesUploadLive ==
    [][ (last'.op = "Terminate" /\ last'.err # NoErr) =>
            /\ store' = store
            /\ GetUploadCall(store, last'.id, FALSE, FALSE).err = NoErr
                   => GetUploadCall(store', last'.id, FALSE, FALSE).err = NoErr ]_vars

----------------------------------------------------------------------------
(* C8: the offset Resume reports *)

\* C8: a Resume(id) that found the metadata object returns the length of the
\* data object, 0 only when the data object does not exist, and returns an
\* error when the size query failed for another reason (transport failure).
C8_SizeQueryFailureReported ==
    [][ (last'.op = "GetUpload" /\ Len(last'.calls) = 2) =>
            IF last'.portErr = ErrTransport
            THEN last'.err # NoErr
            ELSE /\ last'.err = NoErr
                 /\ GetInfo(handles'[last'.h]).Offset = DataLen(store, last'.id)
                 /\ (GetInfo(handles'[last'.h]).Offset = 0 /\ last'.portErr # NoErr)
                        => store[binPath(last'.id)] = Absent ]_vars

----------------------------------------------------------------------------
(* C9: append / read round trip *)

\* C9: for one upload, created while it had no data object and since then only
\* appended to, resumed and read, GetReader on a handle of it returns exactly
\* the chunks of the successful appends, concatenated in the order they
\* succeeded; failed appends add nothing (written records successes only).
C9_ReadAllIsConcatenation ==
    \A h \in Slots :
        (handles[h].live /\ fresh[handles[h].info.ID]) =>
            LET r == GetReader(store, handles[h], FALSE)
                w == written[handles[h].info.ID]
            IN  /\ r.err = NoErr => r.body = AppendableObject(w)
                /\ w # <<>> => r.err = NoErr

\* "wo" then "h" were appended, an append was then rejected, and the read
\* returns "woh"
C9_Witness ==
    /\ last.op = "WriteChunk" /\ last.err = ErrPosition
    /\ handles[last.h].live /\ fresh[last.id]
    /\ written[last.id] = <<119, 111, 104>>
    /\ GetReader(store, handles[last.h], FALSE).body.bytes = <<119, 111, 104>>

----------------------------------------------------------------------------
(* C10: Create without identity *)

\* C10: NewUpload with a metadata map without filehash fails with the
\* missing-identity error, returns no handle (the caller's slot is unchanged),
\* calls no port operation and leaves the bucket as it was.
C10_MissingIdentityWritesNothing ==
    [][ \A h \in Slots, md \in MetaDatas, sz \in Sizes, fault \in BOOLEAN :
            ("filehash" \notin DOMAIN md /\ NewUpload(h, md, sz, fault)) =>
                /\ last'.err = ErrMissFilehash
                /\ last'.calls = <<>>
                /\ NewUploadCall(store, md, sz, fault).upload = NoHandle
                /\ handles' = handles
                /\ store' = store ]_vars

\* the missing-identity error returned while the bucket holds an upload
C10_Witness ==
    /\ last.op = "NewUpload" /\ last.err = ErrMissFilehash
    /\ store[infoPath(IdA)] # Absent /\ store[binPath(IdA)] # Absent

----------------------------------------------------------------------------
(* C13: the three operations that do nothing *)

StubOps == { "DeclareLength", "ConcatUploads", "FinishUpload" }

\* C13: every DeclareLength, ConcatUploads and FinishUpload call returns no
\* error, calls no port operation, and leaves every storage object and the info
\* of the handle (ID, Offset, Size, MetaData) as they were.
C13_StubsSucceedAndChangeNothing ==
    [][ last'.op \in StubOps =>
            /\ last'.err = NoErr
            /\ last'.calls = <<>>
            /\ store' = store
            /\ GetInfo(handles'[last'.h]) = GetInfo(handles[last'.h]) ]_vars

\* DeclareLength returned on an upload with data whose declared size differs
C13_Witness ==
    /\ last.op = "DeclareLength" /\ last.err = NoErr
    /\ DataLen(store, last.id) > handles[last.h].info.Size

----------------------------------------------------------------------------
(* C15: who writes the metadata object *)

\* C15: a GetUpload, WriteChunk, DeclareLength, ConcatUploads or FinishUpload
\* call leaves every metadata object as it was (absent ones stay absent); a
\* metadata object in the bucket is a document as NewUpload marshals it, with
\* Offset 0, whatever the length of the data object.  GetInfo and GetReader
\* return a value and have no bucket to write to.
C15_InfoWrittenOnlyByNewUpload ==
    [][ \A id \in Ids :
          /\ last'.op \in {"GetUpload", "WriteChunk"} \cup StubOps =>
                store'[infoPath(id)] = store[infoPath(id)]
          /\ store'[infoPath(id)] # Absent =>
                /\ store'[infoPath(id)].kind = "normal"
                /\ store'[infoPath(id)].doc.ID = id
                /\ store'[infoPath(id)].doc.Offset = 0 ]_vars

\* the data object grown to MaxLen by appends while the metadata object still
\* says Offset 0
C15_Witness ==
    /\ last.op = "WriteChunk" /\ last.err = NoErr
    /\ DataLen(store, last.id) = MaxLen
    /\ store[infoPath(last.id)] # Absent
    /\ store[infoPath(last.id)].doc.Offset = 0

----------------------------------------------------------------------------
(* C18: reading before the first append *)

\* C18: for an upload created while no data object existed and with no
\* successful WriteChunk since, a GetReader call that reaches the backend fails
\* with NoSuchKey: NewUpload wrote only the metadata object.
C18_ReadBeforeFirstAppendNotFound ==
    \A h \in Slots :
        (/\ handles[h].live
         /\ fresh[handles[h].info.ID]
         /\ written[handles[h].info.ID] = <<>>) =>
            /\ GetReader(store, handles[h], FALSE).err = ErrNoSuchKey
            /\ store[infoPath(handles[h].info.ID)] # Absent

\* GetReader on the handle NewUpload just returned, after an append to it was
\* rejected
C18_Witness ==
    /\ last.op = "WriteChunk" /\ last.err = ErrPosition
    /\ handles[last.h].live /\ fresh[last.id] /\ written[last.id] = <<>>
    /\ GetReader(store, handles[last.h], FALSE).err = ErrNoSuchKey

----------------------------------------------------------------------------
(* C16: data object without metadata object *)

\* C16, for the case it names: a WriteChunk on a handle of an upload that a
\* Terminate removed without error (and that was not created again) leaves no
\* data object <id> in a bucket without the metadata object <id>.info.
C16_DataOnlyWithInfo ==
    [][ \A id \in Ids :
          (terminated[id] /\ last'.op = "WriteChunk" /\ last'.id = id) =>
              (store'[binPath(id)] # Absent => store'[infoPath(id)] # Absent) ]_vars

----------------------------------------------------------------------------
(* C14: the offset over the life of an upload *)

\* the offset a GetUpload(id) that reaches the backend reports in bucket s
ResumeOffset(s, id) == GetInfo(GetUploadCall(s, id, FALSE, FALSE).upload).Offset

\* the declared size in the metadata object of id
TotalSize(s, id) == s[infoPath(id)].doc.Size

\* from a NewUpload made while no data object existed up to the next Terminate
\* or NewUpload call, the offset GetUpload reports starts at 0 and never
\* decreases
OffsetStartsAtZeroAndGrows ==
    \A id \in Ids :
        /\ (Succeeded("NewUpload") /\ last'.id = id /\ fresh'[id]) =>
                ResumeOffset(store', id) = 0
        /\ (fresh[id] /\ fresh'[id]) =>
                ResumeOffset(store', id) >= ResumeOffset(store, id)

----------------------------------------------------------------------------
(* C19: GetUpload reads only *)

----------------------------------------------------------------------------
(* C12: calls with a cancelled context *)

\* C12: a NewUpload (one that passed the filehash check), GetUpload,
\* WriteChunk or Terminate call made with an already cancelled context returns
\* the cancellation error, returns no handle, and leaves every object of the
\* bucket as it was.
C12_CancelledContextAborts ==
    [][ (ctx' = Cancelled /\ last'.err # ErrMissFilehash) =>
            /\ last'.err = ErrCanceled
            /\ handles' = handles
            /\ store' = store ]_vars

----------------------------------------------------------------------------
(* C17: uploads with distinct ids *)

\* C17: a NewUpload, WriteChunk or Terminate call for one id leaves the
\* metadata object and the data object of every other created upload as they
\* were, also when one id is the other followed by ".info".
C17_DistinctUploadsIsolated ==
    [][ \A id \in IdsOverlap, other \in IdsOverlap :
          (/\ id # other
           /\ last'.op \in {"NewUpload", "WriteChunk", "Terminate"}
           /\ last'.id = id
           /\ store[infoPath(other)] # Absent) =>
                /\ store'[infoPath(other)] = store[infoPath(other)]
                /\ store'[binPath(other)] = store[binPath(other)] ]_vars

----------------------------------------------------------------------------
(* C11: two WriteChunk calls at the same time *)

\* the calls of c and d on the same upload with the same offset have both been
\* served and neither has returned: they ran at the same time
ServedTogether(c, d) ==
    /\ c # d
    /\ inflight[c] # Idle /\ inflight[d] # Idle
    /\ inflight[c].pc = "done" /\ inflight[d].pc = "done"
    /\ inflight[c].upload.info.ID = inflight[d].upload.info.ID
    /\ inflight[c].offset = inflight[d].offset

\* the bytes of the data object of id (none when there is no object)
DataBytes(s, id) == IF s[binPath(id)].kind = "appendable" THEN s[binPath(id)].bytes ELSE <<>>

\* a served call that failed failed with the offset conflict, and the data
\* object of an upload created without data is the chunks of the successful
\* appends, in the order the backend served them
ConflictOrAppended(c) ==
    /\ (inflight[c].err # NoErr /\ inflight[c].portErr # ErrTransport) =>
            inflight[c].err = ErrPosition
    /\ fresh[inflight[c].upload.info.ID] =>
            DataBytes(store, inflight[c].upload.info.ID)
                = written[inflight[c].upload.info.ID]

\* C11 as stated: of two WriteChunk calls running at the same time on one
\* upload with the same offset at most one succeeds, the other fails with the
\* offset conflict, and the data object is the chunks of the successful appends.
C11_AtMostOneSucceeds ==
    \A c \in Callers, d \in Callers :
        ServedTogether(c, d) =>
            /\ ~(inflight[c].err = NoErr /\ inflight[d].err = NoErr)
            /\ ConflictOrAppended(c)

\* C11 amended: both succeed only when one of the chunks is empty; otherwise
\* as stated.
C11_AtMostOneNonEmptySucceeds ==
    \A c \in Callers, d \in Callers :
        ServedTogether(c, d) =>
            /\ (inflight[c].err = NoErr /\ inflight[d].err = NoErr) =>
                    (inflight[c].chunk = <<>> \/ inflight[d].chunk = <<>>)
            /\ ConflictOrAppended(c)

\* two calls served together at an offset above 0: one appended "wo", the
\* other was rejected with the offset conflict
C11_Witness ==
    \E c \in Callers, d \in Callers :
        /\ ServedTogether(c, d)
        /\ inflight[c].offset > 0
        /\ inflight[c].err = NoErr /\ inflight[c].chunk = <<119, 111>>
        /\ inflight[d].err = ErrPosition /\ inflight[d].chunk # <<>>
        /\ fresh[inflight[c].upload.info.ID]

====
